---- MODULE Spec2Model ----
(***************************************************************************)
(* State-machine model of the CorporateGovernanceUltimate ledger as the    *)
(* tutorial (HELLO_FHEVM_TUTORIAL.md, chapter 4) lists it: initCompany,     *)
(* addShareholder, createProposal and vote, with the access modifiers,      *)
(* addBoard and finalize that the listing uses or the walkthrough calls     *)
(* but does not print; and of the front-end's VotingPage (ProposalsPage.tsx) *)
(* with its vote modal and the simulated handleVote, and the ProposalsPage  *)
(* with its status tabs and text search.                                    *)
(*                                                                          *)
(* Every call is one atomic step (the ledger serialises calls); a call      *)
(* that reverts leaves every variable as it was.  uint32 quantities are     *)
(* kept as two 16-bit limbs <<hi, lo>> so that 2^32 - 1 and sums beyond it  *)
(* are exact; a limb pair with hi >= 2^16 is a value that no longer fits    *)
(* in a uint32.  uint256 quantities (timestamps, _days, totalShares) stay    *)
(* far below 2^256 for every input explored, so they are plain naturals.    *)
(* The owner is the deployer throughout: Ownable's transferOwnership and    *)
(* renounceOwnership are not explored.                                      *)
(***************************************************************************)
EXTENDS Integers, Sequences, FiniteSets, TLC

VARIABLES
    initialized,    \* bool initialized
    companyName,    \* string companyName
    totalShares,    \* uint256 totalShares
    board,          \* addresses granted the board role by addBoard
    shareholders,   \* mapping(address => Shareholder)
    proposals,      \* Proposal[] proposals
    voted,          \* mapping(uint256 => mapping(address => bool)), as the set of true pairs
    castWeight,     \* history: the local `shares` read by each successful vote
    txCount,        \* history: number of calls mined without a revert
    now,            \* block.timestamp
    selectedProposal,   \* VotingPage state: MockProposal | null, by its id
    votingInProgress,   \* VotingPage state: number | null
    showVoteModal,      \* VotingPage state: boolean
    pendingVotes,       \* handleVote invocations waiting at their await, oldest first
    toast,              \* the last toast handleVote raised
    web3,               \* what useWeb3() gives the page: wallet and contract status
    mockProposals,      \* the proposals getActiveProposals() gives the page
    selectedTab,        \* ProposalsPage state: 'all' | 'active' | 'pending' | 'completed'
    searchTerm,         \* ProposalsPage state: string, as its sequence of characters
    allMockProposals,   \* the mockProposals list the ProposalsPage imports
    logging,            \* whether the event log is being recorded
    eventCount,         \* number of events the contract has emitted while recorded
    lastEvent,          \* the event emitted last while recorded
    ethereum,           \* whether window.ethereum is present
    script              \* the invocation of a testProposal.ts helper and where it stands

ledger == <<initialized, companyName, totalShares, board, shareholders, proposals, voted>>
state == <<initialized, companyName, totalShares, board, shareholders, proposals, voted,
           castWeight, now, logging, eventCount, lastEvent>>
events == <<logging, eventCount, lastEvent>>
page == <<selectedProposal, votingInProgress, showVoteModal, pendingVotes, toast, web3,
          mockProposals>>
listing == <<selectedTab, searchTerm, allMockProposals>>
helpers == <<ethereum, script>>
vars == <<state, txCount, page, listing, helpers>>

----------------------------------------------------------------------------
(* Bounds of the exploration *)

MaxCalls == 6          \* calls are explored while fewer have been mined without revert
MaxProposals == 2      \* createProposal is explored while fewer proposals exist
MaxScenarioCalls == 11 \* the call budget of the walkthrough specifications

(* Program constants *)
Base == 2 ^ 16
DAY == 24 * 60 * 60                \* Solidity's `1 days`

----------------------------------------------------------------------------
(* uint32 as limbs *)

FromNat(n) == <<n \div Base, n % Base>>
Zero32 == <<0, 0>>
Max32 == <<Base - 1, Base - 1>>                     \* type(uint32).max
FitsU32(w) == w[1] < Base
WideAdd(a, b) == <<a[1] + b[1] + ((a[2] + b[2]) \div Base), (a[2] + b[2]) % Base>>
WideLeq(a, b) == a[1] < b[1] \/ (a[1] = b[1] /\ a[2] <= b[2])

WideMul(a, k) == <<(a[1] * k) + ((a[2] * k) \div Base), (a[2] * k) % Base>>   \* k < 2^8
ToNat(w) == (w[1] * Base) + w[2]                    \* for values below 2^31

RECURSIVE WideSum(_, _)
WideSum(f, S) ==
    IF S = {} THEN Zero32
    ELSE LET x == CHOOSE y \in S : TRUE
         IN  WideAdd(f[x], WideSum(f, S \ {x}))

----------------------------------------------------------------------------
(* Inputs *)

owner == "owner"                                    \* Ownable: the deployer
Addresses == {owner, "alice"}
BoardInputs == Addresses \ {owner}                  \* addresses passed to addBoard
CompanyNames == {"Acme Corporation", "Test Corporate DAO"}
TotalSharesInputs == {1000000}
ShareInputs == {FromNat(1), Max32}
HolderNames == {"Alice Johnson"}
AllHolderNames == {"Alice Johnson", "Bob Smith"}    \* names of the walkthrough
TypeInputs == {1}                                   \* BUDGET, as in the walkthrough
AllTypeInputs == {0, 1, 2, 3, 4, 5, 6, 255}         \* the six categories and two values outside
Titles == {"Q4 2024 Budget Approval"}
DayInputs == {7}                                    \* 7 days, as in the walkthrough
IdInputs == 0 .. (MaxProposals + 1)
ChoiceInputs == {0, 1, 2, 3}
AllChoiceInputs == {0, 1, 2, 3, 4, 255}            \* the three choices and uint8 values outside

(* The accounts and arguments of the walkthrough (Test Scenario) *)
ScenarioBoard == {"0x1234", "0x5678"}
ScenarioHolders == {"0xabc", "0xdef", "0x123"}
ScenarioAddresses == {owner} \cup ScenarioBoard \cup ScenarioHolders
ScenarioShares ==
    [h \in ScenarioHolders |->
        IF h = "0xabc" THEN FromNat(50000) ELSE IF h = "0xdef" THEN FromNat(30000)
        ELSE FromNat(20000)]
ScenarioName ==
    [h \in ScenarioHolders |->
        IF h = "0xabc" THEN "Alice Johnson" ELSE IF h = "0xdef" THEN "Bob Smith"
        ELSE "Carol Williams"]
ScenarioChoice ==                                   \* Alice for, Bob against, Carol abstains
    [h \in ScenarioHolders |-> IF h = "0xabc" THEN 1 ELSE IF h = "0xdef" THEN 2 ELSE 0]
ScenarioTypes == {0, 1}                             \* a 50% type and BUDGET
TallyTypes == {0, 1, 2}                             \* one type per threshold

NoShareholder == [active |-> FALSE, shares |-> Zero32, name |-> ""]

OK == "ok"

----------------------------------------------------------------------------
(* Events: a call that does not revert appends what it emits to the log.    *)
(* The log is a history of the run, kept as its length and its last entry;  *)
(* it is recorded only in the specifications that observe it, so that the   *)
(* others do not tell apart states that differ in the last event alone.     *)

NoEvent == << >>

(* mutant: the emit statement is missing *)
Emit_Nothing(e) == UNCHANGED events

Emit(e) ==
    /\ eventCount' = IF logging THEN eventCount + 1 ELSE eventCount
    /\ lastEvent' = IF logging THEN e ELSE lastEvent
    /\ UNCHANGED logging

----------------------------------------------------------------------------
(* Access modifiers *)

onlyOwner(caller) == caller = owner
onlyBoard(caller) == caller = owner \/ caller \in board
onlySharehol(caller) == shareholders[caller].active

----------------------------------------------------------------------------
(* initCompany(_name, _shares) *)

(* mutant: the require(!initialized) is missing *)
initCompanyRevert_NoInitCheck(caller) ==
    IF ~onlyOwner(caller) THEN "Not owner" ELSE OK

initCompanyRevert(caller) ==
    IF ~onlyOwner(caller) THEN "Not owner"
    ELSE IF initialized THEN "Already initialized"
    ELSE OK

initCompany(caller, _name, _shares) ==
    IF initCompanyRevert(caller) = OK
    THEN /\ companyName' = _name
         /\ totalShares' = _shares
         /\ initialized' = TRUE
         /\ Emit(<<"CompanyInit", <<_name>>>>)
         /\ UNCHANGED <<board, shareholders, proposals, voted, castWeight, now>>
    ELSE UNCHANGED state

(* addBoard(_addr) *)

addBoardRevert(caller) ==
    IF ~onlyOwner(caller) THEN "Not owner" ELSE OK

addBoard(caller, _addr) ==
    IF addBoardRevert(caller) = OK
    THEN /\ board' = board \cup {_addr}
         /\ UNCHANGED <<initialized, companyName, totalShares, shareholders, proposals,
                        voted, castWeight, now, events>>
    ELSE UNCHANGED state

(* addShareholder(_addr, _shares, _name) *)

addShareholderRevert(caller) ==
    IF ~onlyBoard(caller) THEN "Not board" ELSE OK

(* mutant: a re-registration adds to the shares already held *)
NewShareholder_Merge(old, _shares, _name) ==
    [active |-> TRUE, shares |-> WideAdd(old.shares, _shares), name |-> _name]

(* mutant: registering an address that is active deactivates it *)
NewShareholder_Toggle(old, _shares, _name) ==
    [active |-> ~old.active, shares |-> _shares, name |-> _name]

NewShareholder(old, _shares, _name) ==
    [active |-> TRUE, shares |-> _shares, name |-> _name]

(* mutant: a registration clears the has-voted records of the address *)
addShareholder_ClearsVotes(caller, _addr, _shares, _name) ==
    IF addShareholderRevert(caller) = OK
    THEN /\ shareholders' = [shareholders EXCEPT
                                ![_addr] = NewShareholder(shareholders[_addr], _shares, _name)]
         /\ voted' = {k \in voted : k[2] # _addr}
         /\ castWeight' = [k \in {j \in voted : j[2] # _addr} |-> castWeight[k]]
         /\ Emit(<<"ShareholderAdd", <<_addr>>>>)
         /\ UNCHANGED <<initialized, companyName, totalShares, board, proposals, now>>
    ELSE UNCHANGED state

addShareholder(caller, _addr, _shares, _name) ==
    IF addShareholderRevert(caller) = OK
    THEN /\ shareholders' = [shareholders EXCEPT
                                ![_addr] = NewShareholder(shareholders[_addr], _shares, _name)]
         /\ Emit(<<"ShareholderAdd", <<_addr>>>>)
         /\ UNCHANGED <<initialized, companyName, totalShares, board, proposals, voted,
                        castWeight, now>>
    ELSE UNCHANGED state

(* createProposal(_type, _title, _days) *)

(* mutant: the onlyBoard modifier is missing from the signature *)
createProposalRevert_NoModifier(caller) == OK

createProposalRevert(caller) ==
    IF ~onlyBoard(caller) THEN "Not board" ELSE OK

(* mutant: the two special types are swapped *)
Threshold_Swapped(_type) == IF _type = 1 THEN 75 ELSE (IF _type = 2 THEN 60 ELSE 50)

Threshold(_type) == IF _type = 2 THEN 75 ELSE (IF _type = 1 THEN 60 ELSE 50)

(* mutant: the id is the length before the push *)
createProposalId_ZeroBased == Len(proposals)

createProposalId == Len(proposals) + 1      \* uint256 id = proposals.length + 1, returned

(* mutant: the deadline is block.timestamp + _days, without `* 1 days` *)
NewProposal_DaysAsSeconds(caller, _type, _title, _days) ==
    [pType        |-> _type,
     title        |-> _title,
     proposer     |-> caller,
     deadline     |-> now + _days,
     active       |-> TRUE,
     forVotes     |-> Zero32,
     againstVotes |-> Zero32,
     threshold    |-> Threshold(_type)]

NewProposal(caller, _type, _title, _days) ==
    [pType        |-> _type,
     title        |-> _title,
     proposer     |-> caller,
     deadline     |-> now + (_days * DAY),
     active       |-> TRUE,
     forVotes     |-> Zero32,
     againstVotes |-> Zero32,
     threshold    |-> Threshold(_type)]

createProposal(caller, _type, _title, _days) ==
    IF createProposalRevert(caller) = OK
    THEN /\ proposals' = Append(proposals, NewProposal(caller, _type, _title, _days))
         /\ Emit(<<"ProposalAdd", <<createProposalId>>>>)
         /\ UNCHANGED <<initialized, companyName, totalShares, board, shareholders,
                        voted, castWeight, now>>
    ELSE UNCHANGED state

(* vote(_id, _choice) *)

ValidId(_id) == _id > 0 /\ _id <= Len(proposals)
HasVoted(_id, caller) == <<_id, caller>> \in voted
(* mutants: one half of the voting-window require is missing *)
VotingOpen_NoActive(p) == now <= p.deadline
VotingOpen_NoDeadline(p) == p.active

VotingOpen(p) == p.active /\ now <= p.deadline

(* Solidity arrays are 0-based, sequences 1-based: proposals[i] is At(proposals, i) *)
InBounds(arr, i) == i >= 0 /\ i < Len(arr)
At(arr, i) == arr[i + 1]
(* mutant: the storage reference is taken at proposals[_id] *)
pIndex_OffByOne(_id) == _id

pIndex(_id) == _id - 1                      \* Proposal storage p = proposals[_id - 1]

(* mutants: the two branches are swapped; a for-vote is added to both tallies *)
Tally_Swapped(p, _choice, shares) ==
    IF _choice = 1 THEN [p EXCEPT !.againstVotes = WideAdd(p.againstVotes, shares)]
    ELSE IF _choice = 2 THEN [p EXCEPT !.forVotes = WideAdd(p.forVotes, shares)]
    ELSE p

Tally_Both(p, _choice, shares) ==
    IF _choice = 1 THEN [p EXCEPT !.forVotes = WideAdd(p.forVotes, shares),
                                  !.againstVotes = WideAdd(p.againstVotes, shares)]
    ELSE IF _choice = 2 THEN [p EXCEPT !.againstVotes = WideAdd(p.againstVotes, shares)]
    ELSE p

(* mutant: the caller's shares are assigned to the tally, not added to it *)
Tally_Assign(p, _choice, shares) ==
    IF _choice = 1 THEN [p EXCEPT !.forVotes = shares]
    ELSE IF _choice = 2 THEN [p EXCEPT !.againstVotes = shares]
    ELSE p

(* mutant: a choice that is neither 1 nor 2 is counted in favour *)
Tally_AbstainCounts(p, _choice, shares) ==
    IF _choice = 2 THEN [p EXCEPT !.againstVotes = WideAdd(p.againstVotes, shares)]
    ELSE [p EXCEPT !.forVotes = WideAdd(p.forVotes, shares)]

(* p.forVotes += shares / p.againstVotes += shares, before the overflow check *)
Tally(p, _choice, shares) ==
    IF _choice = 1 THEN [p EXCEPT !.forVotes = WideAdd(p.forVotes, shares)]
    ELSE IF _choice = 2 THEN [p EXCEPT !.againstVotes = WideAdd(p.againstVotes, shares)]
    ELSE p

(* mutant: the additions are unchecked *)
NoOverflow_Unchecked(p) == TRUE

(* Solidity 0.8 checked arithmetic: the sum must fit the uint32 field *)
NoOverflow(p) == FitsU32(p.forVotes) /\ FitsU32(p.againstVotes)

(* mutants: the has-voted require is missing; the voting-window require is missing *)
voteRevert_NoVotedCheck(caller, _id, _choice) ==
    IF ~onlySharehol(caller) THEN "Not shareholder"
    ELSE IF ~ValidId(_id) THEN "Invalid proposal ID"
    ELSE IF ~InBounds(proposals, pIndex(_id)) THEN "Panic(0x32)"
    ELSE IF ~VotingOpen(At(proposals, pIndex(_id))) THEN "Voting period ended"
    ELSE IF ~NoOverflow(Tally(At(proposals, pIndex(_id)), _choice,
                              shareholders[caller].shares))
         THEN "Panic(0x11)"
    ELSE OK

voteRevert_NoWindowCheck(caller, _id, _choice) ==
    IF ~onlySharehol(caller) THEN "Not shareholder"
    ELSE IF ~ValidId(_id) THEN "Invalid proposal ID"
    ELSE IF HasVoted(_id, caller) THEN "Already voted on this proposal"
    ELSE IF ~InBounds(proposals, pIndex(_id)) THEN "Panic(0x32)"
    ELSE IF ~NoOverflow(Tally(At(proposals, pIndex(_id)), _choice,
                              shareholders[caller].shares))
         THEN "Panic(0x11)"
    ELSE OK

(* mutant: the voting window is checked before the has-voted record *)
voteRevert_WindowFirst(caller, _id, _choice) ==
    IF ~onlySharehol(caller) THEN "Not shareholder"
    ELSE IF ~ValidId(_id) THEN "Invalid proposal ID"
    ELSE IF ~InBounds(proposals, pIndex(_id)) THEN "Panic(0x32)"
    ELSE IF ~VotingOpen(At(proposals, pIndex(_id))) THEN "Voting period ended"
    ELSE IF HasVoted(_id, caller) THEN "Already voted on this proposal"
    ELSE IF ~NoOverflow(Tally(At(proposals, pIndex(_id)), _choice,
                              shareholders[caller].shares))
         THEN "Panic(0x11)"
    ELSE OK

(* mutant: a choice above 2 is rejected *)
voteRevert_ChoiceChecked(caller, _id, _choice) ==
    IF ~onlySharehol(caller) THEN "Not shareholder"
    ELSE IF _choice > 2 THEN "Invalid choice"
    ELSE IF ~ValidId(_id) THEN "Invalid proposal ID"
    ELSE IF HasVoted(_id, caller) THEN "Already voted on this proposal"
    ELSE IF ~InBounds(proposals, pIndex(_id)) THEN "Panic(0x32)"
    ELSE IF ~VotingOpen(At(proposals, pIndex(_id))) THEN "Voting period ended"
    ELSE IF ~NoOverflow(Tally(At(proposals, pIndex(_id)), _choice,
                              shareholders[caller].shares))
         THEN "Panic(0x11)"
    ELSE OK

voteRevert(caller, _id, _choice) ==
    IF ~onlySharehol(caller) THEN "Not shareholder"
    ELSE IF ~ValidId(_id) THEN "Invalid proposal ID"
    ELSE IF HasVoted(_id, caller) THEN "Already voted on this proposal"
    ELSE IF ~InBounds(proposals, pIndex(_id)) THEN "Panic(0x32)"
    ELSE IF ~VotingOpen(At(proposals, pIndex(_id))) THEN "Voting period ended"
    ELSE IF ~NoOverflow(Tally(At(proposals, pIndex(_id)), _choice,
                              shareholders[caller].shares))
         THEN "Panic(0x11)"
    ELSE OK

vote(caller, _id, _choice) ==
    IF voteRevert(caller, _id, _choice) = OK
    THEN LET shares == shareholders[caller].shares
         IN  /\ voted' = voted \cup {<<_id, caller>>}
             /\ proposals' = [proposals EXCEPT ![pIndex(_id) + 1] = Tally(@, _choice, shares)]
             /\ castWeight' = [k \in voted \cup {<<_id, caller>>} |->
                                  IF k = <<_id, caller>> THEN shares ELSE castWeight[k]]
             /\ Emit(<<"VoteAdd", <<_id, caller>>>>)
             /\ UNCHANGED <<initialized, companyName, totalShares, board, shareholders, now>>
    ELSE UNCHANGED state

(* finalize(_id) *)

finalizeRevert(_id) ==
    IF ~ValidId(_id) THEN "Invalid proposal ID"
    ELSE IF ~proposals[_id].active THEN "Already finalized"
    ELSE OK

finalize(_id) ==
    IF finalizeRevert(_id) = OK
    THEN /\ proposals' = [proposals EXCEPT ![_id].active = FALSE]
         /\ UNCHANGED <<initialized, companyName, totalShares, board, shareholders, voted,
                        castWeight, now, events>>
    ELSE UNCHANGED state

(* getResults(_id): the stored tallies and whether the for-share of the     *)
(* for and against votes reaches the threshold; (f * 100) / (f + a) >= t     *)
(* in integer arithmetic is f * 100 >= t * (f + a).  With no for or against  *)
(* vote there is no percentage and the proposal has not passed.              *)

(* mutants: the for-share must exceed the threshold; the share is taken of   *)
(* the for votes alone                                                       *)
Passed_Strict(p) ==
    LET total == WideAdd(p.forVotes, p.againstVotes)
    IN  /\ total # Zero32
        /\ ~WideLeq(WideMul(p.forVotes, 100), WideMul(total, p.threshold))

Passed(p) ==
    LET total == WideAdd(p.forVotes, p.againstVotes)
    IN  /\ total # Zero32
        /\ WideLeq(WideMul(total, p.threshold), WideMul(p.forVotes, 100))

getResults(_id) ==
    LET p == proposals[_id]
    IN  <<p.forVotes, p.againstVotes, Passed(p)>>

(* The block timestamp advances between calls.  The times explored are a   *)
(* proposal's creation time, its deadline and the second after it.         *)
TickTargets ==
    UNION {{proposals[i].deadline, proposals[i].deadline + 1} : i \in 1 .. Len(proposals)}

Tick(t) ==
    /\ t \in TickTargets
    /\ t > now
    /\ now' = t
    /\ UNCHANGED <<initialized, companyName, totalShares, board, shareholders, proposals,
                   voted, castWeight, events, txCount, page, listing, helpers>>

----------------------------------------------------------------------------
(* VotingPage (ProposalsPage.tsx, lines 417-740) *)

null == {}                      \* a nullable value is the empty set or a singleton
MockIds == {1, 2}               \* ids of the active mock proposals
MockProposals ==
    [id \in MockIds |-> [id |-> id, forVotes |-> id, againstVotes |-> 1, abstainVotes |-> 0]]
VoteChoices == {"FOR", "AGAINST", "ABSTAIN"}
(* useWeb3(): wallet not connected; contract loading; contract error;       *)
(* connected with no contract instance; connected with the contract         *)
Web3States == {"disconnected", "loading", "error", "noContract", "ready"}

PageInit ==
    /\ selectedProposal = null
    /\ votingInProgress = null
    /\ showVoteModal = FALSE
    /\ pendingVotes = << >>
    /\ toast = "none"
    /\ web3 = "disconnected"
    /\ mockProposals = MockProposals

(* the page returns early, without its controls, while the wallet is not    *)
(* connected or the contract is loading or failed to load                   *)
ControlsRendered == web3 \in {"noContract", "ready"}
ModalRendered == ControlsRendered /\ showVoteModal /\ selectedProposal # null
VoteNowDisabled(proposalId) == votingInProgress = {proposalId}

(* mutant: the modal's buttons are disabled as the Vote Now button is *)
VoteDisabled_SameProposal == votingInProgress = selectedProposal

VoteDisabled == votingInProgress # null     \* the For, Against and Abstain buttons

openVoteModal(proposalId) ==
    /\ ControlsRendered
    /\ ~VoteNowDisabled(proposalId)
    /\ selectedProposal' = {proposalId}
    /\ showVoteModal' = TRUE
    /\ UNCHANGED <<votingInProgress, pendingVotes, toast, web3, mockProposals, state, txCount,
                   listing, helpers>>

(* the modal's close button and its Cancel button *)
closeVoteModal ==
    /\ ModalRendered
    /\ showVoteModal' = FALSE
    /\ UNCHANGED <<selectedProposal, votingInProgress, pendingVotes, toast, web3,
                   mockProposals, state, txCount, listing, helpers>>

(* mutant: the vote is counted in the displayed proposal *)
SubmitVote_Counted(proposalId, voteChoice) ==
    /\ mockProposals' =
          [mockProposals EXCEPT
              ![proposalId].forVotes = IF voteChoice = "FOR" THEN @ + 1 ELSE @,
              ![proposalId].againstVotes = IF voteChoice = "AGAINST" THEN @ + 1 ELSE @,
              ![proposalId].abstainVotes = IF voteChoice = "ABSTAIN" THEN @ + 1 ELSE @]
    /\ UNCHANGED <<state, txCount>>

(* what the try block submits: the contract call is commented out, only the *)
(* delay is simulated                                                       *)
SubmitVote(proposalId, voteChoice) == UNCHANGED <<mockProposals, state, txCount>>

(* handleVote from the click to its await.  Anything the try block calls    *)
(* may throw: the catch branch raises the error toast and the finally       *)
(* branch clears votingInProgress.                                          *)
handleVote(proposalId, voteChoice) ==
    /\ ModalRendered
    /\ ~VoteDisabled
    /\ selectedProposal = {proposalId}
    /\ IF web3 # "ready"
       THEN /\ toast' = "connect"
            /\ UNCHANGED <<votingInProgress, pendingVotes>>
       ELSE \/ /\ votingInProgress' = {proposalId}
               /\ toast' = "loading"
               /\ pendingVotes' = Append(pendingVotes, [proposalId |-> proposalId,
                                                        voteChoice |-> voteChoice])
            \/ /\ toast' = "failed"
               /\ votingInProgress' = null
               /\ UNCHANGED pendingVotes
    /\ UNCHANGED <<selectedProposal, showVoteModal, web3, mockProposals, state, txCount,
                   listing, helpers>>

(* mutant: a successful vote closes the modal only if it still shows the     *)
(* proposal voted on                                                        *)
handleVoteResume_OwnModalOnly ==
    /\ pendingVotes # << >>
    /\ SubmitVote(Head(pendingVotes).proposalId, Head(pendingVotes).voteChoice)
    /\ \/ /\ toast' = "success"
          /\ IF selectedProposal = {Head(pendingVotes).proposalId}
             THEN showVoteModal' = FALSE /\ selectedProposal' = null
             ELSE UNCHANGED <<showVoteModal, selectedProposal>>
       \/ /\ toast' = "failed"
          /\ UNCHANGED <<showVoteModal, selectedProposal>>
    /\ votingInProgress' = null
    /\ pendingVotes' = Tail(pendingVotes)
    /\ UNCHANGED <<web3, listing, helpers>>

(* mutant: no finally block, a vote that throws keeps votingInProgress *)
handleVoteResume_NoFinally ==
    /\ pendingVotes # << >>
    /\ SubmitVote(Head(pendingVotes).proposalId, Head(pendingVotes).voteChoice)
    /\ \/ /\ toast' = "success"
          /\ showVoteModal' = FALSE
          /\ selectedProposal' = null
          /\ votingInProgress' = null
       \/ /\ toast' = "failed"
          /\ UNCHANGED <<showVoteModal, selectedProposal, votingInProgress>>
    /\ pendingVotes' = Tail(pendingVotes)
    /\ UNCHANGED <<web3, listing, helpers>>

(* handleVote from its await to its end, when the 2000 ms timer has fired *)
handleVoteResume ==
    /\ pendingVotes # << >>
    /\ SubmitVote(Head(pendingVotes).proposalId, Head(pendingVotes).voteChoice)
    /\ \/ /\ toast' = "success"
          /\ showVoteModal' = FALSE
          /\ selectedProposal' = null
       \/ /\ toast' = "failed"
          /\ UNCHANGED <<showVoteModal, selectedProposal>>
    /\ votingInProgress' = null
    /\ pendingVotes' = Tail(pendingVotes)
    /\ UNCHANGED <<web3, listing, helpers>>

(* the wallet connects or disconnects, the contract loads or fails *)
Web3Change(w) ==
    /\ w # web3
    /\ web3' = w
    /\ UNCHANGED <<selectedProposal, votingInProgress, showVoteModal, pendingVotes, toast,
                   mockProposals, state, txCount, listing, helpers>>

----------------------------------------------------------------------------
(* ProposalsPage (ProposalsPage.tsx, lines 10-308) *)

(* A string is the sequence of its characters; the alphabet explored has     *)
(* three letters in both cases.                                              *)
LowerCase == [c \in {"a", "b", "c", "A", "B", "C"} |->
                 IF c = "A" THEN "a" ELSE IF c = "B" THEN "b" ELSE IF c = "C" THEN "c" ELSE c]

(* mutant: the strings are compared as they are written *)
toLowerCase_AsWritten(str) == str

toLowerCase(str) == [i \in 1 .. Len(str) |-> LowerCase[str[i]]]

(* String.prototype.includes: some window of str equals sub *)
includes(str, sub) ==
    \E i \in 0 .. (Len(str) - Len(sub)) : SubSeq(str, i + 1, i + Len(sub)) = sub

Tabs == {"all", "active", "pending", "completed"}
SearchTermInputs ==
    {<< >>, <<"a">>, <<"C">>, <<"A", "B">>, <<"b", "c">>, <<"c", "a">>, <<"a", "b", "c">>}
PROPOSAL_TYPE_LABELS == [t \in {0, 1, 2} |->
    IF t = 0 THEN <<"C", "a">> ELSE IF t = 1 THEN <<"A", "c">> ELSE <<"b", "b">>]
MockProposalInputs ==
    {[id |-> 1, title |-> <<"A", "b">>, description |-> <<"c">>, type |-> 0,
      status |-> "active"],
     [id |-> 2, title |-> <<"b", "a">>, description |-> <<"B", "C">>, type |-> 1,
      status |-> "pending"],
     [id |-> 3, title |-> <<"c", "c">>, description |-> <<"a", "B">>, type |-> 1,
      status |-> "completed"],
     [id |-> 4, title |-> <<"a">>, description |-> <<"a">>, type |-> 2,
      status |-> "executed"]}
MaxListed == 3                  \* the mock lists explored hold up to this many proposals
MockLists == UNION {[1 .. n -> MockProposalInputs] : n \in 0 .. MaxListed}

byStatus(list, tab) ==
    IF tab # "all" THEN SelectSeq(list, LAMBDA proposal : proposal.status = tab) ELSE list

bySearch(list, term) ==
    IF term # << >>
    THEN SelectSeq(list, LAMBDA proposal :
            \/ includes(toLowerCase(proposal.title), toLowerCase(term))
            \/ includes(toLowerCase(proposal.description), toLowerCase(term))
            \/ includes(toLowerCase(PROPOSAL_TYPE_LABELS[proposal.type]), toLowerCase(term)))
    ELSE list

filteredProposals == bySearch(byStatus(allMockProposals, selectedTab), searchTerm)

(* the page returns early, without the search box, the tabs and the list,    *)
(* while the wallet is not connected or the contract is loading             *)
ListRendered == web3 \notin {"disconnected", "loading"}

setSelectedTab(tab) ==
    /\ ListRendered
    /\ selectedTab' = tab
    /\ UNCHANGED <<searchTerm, allMockProposals, state, txCount, page, helpers>>

setSearchTerm(term) ==
    /\ ListRendered
    /\ searchTerm' = term
    /\ UNCHANGED <<selectedTab, allMockProposals, state, txCount, page, helpers>>

ListingInit ==
    /\ selectedTab = "all"
    /\ searchTerm = << >>
    /\ allMockProposals = << >>

----------------------------------------------------------------------------
(* testProposal.ts: createTestProposal, initializeCompany, addBoardMember.   *)
(* One invocation at a time is followed through its awaits: getSigner,       *)
(* getAddress (createTestProposal only), the contract call, tx.wait().       *)

HelperNames == {"createTestProposal", "initializeCompany", "addBoardMember"}

Idle ==
    [helper |-> "none", arg |-> "", pc |-> "idle", signer |-> "", calls |-> << >>,
     mined |-> "no", result |-> "none"]

ErrorMessages ==
    {"MetaMask not installed", "getSigner rejected", "getAddress rejected",
     "send rejected", "wait rejected"}

(* the method each helper calls on the contract, with its arguments *)
ContractCall(h, arg) ==
    IF h = "createTestProposal"
    THEN <<"createProposal", <<1, "Test Proposal: Elect New Board Member", 7>>>>
    ELSE IF h = "initializeCompany"
    THEN <<"initCompany", <<"Test Corporate DAO", 1000000>>>>
    ELSE <<"addBoard", <<arg>>>>

HelpersInit ==
    /\ ethereum = FALSE
    /\ script = Idle

----------------------------------------------------------------------------
Init ==
    /\ initialized = FALSE
    /\ companyName = ""
    /\ totalShares = 0
    /\ board = {}
    /\ shareholders = [a \in Addresses |-> NoShareholder]
    /\ proposals = << >>
    /\ voted = {}
    /\ castWeight = [k \in {} |-> Zero32]
    /\ now = 0
    /\ logging = FALSE
    /\ eventCount = 0
    /\ lastEvent = NoEvent
    /\ txCount = 0
    /\ HelpersInit
    /\ PageInit
    /\ ListingInit

(* A call is mined while the budget lasts; one that does not revert is counted *)
MinedWithin(budget, ok) ==
    /\ txCount < budget
    /\ txCount' = IF ok THEN txCount + 1 ELSE txCount
    /\ UNCHANGED <<page, listing, helpers>>          \* a call made outside the pages
Mined(ok) == MinedWithin(MaxCalls, ok)
MinedScenario(ok) == MinedWithin(MaxScenarioCalls, ok)

Next ==
    \/ \E caller \in Addresses, n \in CompanyNames, s \in TotalSharesInputs :
          initCompany(caller, n, s) /\ Mined(initCompanyRevert(caller) = OK)
    \/ \E caller \in Addresses, a \in BoardInputs :
          addBoard(caller, a) /\ Mined(addBoardRevert(caller) = OK)
    \/ \E caller \in Addresses, a \in Addresses, s \in ShareInputs, n \in HolderNames :
          addShareholder(caller, a, s, n) /\ Mined(addShareholderRevert(caller) = OK)
    \/ \E caller \in Addresses, t \in TypeInputs, ti \in Titles, d \in DayInputs :
          /\ Len(proposals) < MaxProposals
          /\ createProposal(caller, t, ti, d)
          /\ Mined(createProposalRevert(caller) = OK)
    \/ \E caller \in Addresses, id \in IdInputs, c \in ChoiceInputs :
          vote(caller, id, c) /\ Mined(voteRevert(caller, id, c) = OK)
    \/ \E id \in IdInputs : finalize(id) /\ Mined(finalizeRevert(id) = OK)
    \/ \E t \in TickTargets : Tick(t)

Spec == Init /\ [][Next]_vars

(* Proposal creation over every sampled uint8 type, by any board member, at any time *)
NextCreate ==
    \/ \E caller \in Addresses, a \in BoardInputs :
          addBoard(caller, a) /\ Mined(addBoardRevert(caller) = OK)
    \/ \E caller \in Addresses, t \in AllTypeInputs, ti \in Titles, d \in DayInputs :
          /\ Len(proposals) < MaxProposals
          /\ createProposal(caller, t, ti, d)
          /\ Mined(createProposalRevert(caller) = OK)
    \/ \E t \in TickTargets : Tick(t)

SpecCreate == Init /\ [][NextCreate]_vars

(* The walkthrough: the owner initializes the company and names two board    *)
(* members, the three shareholders are registered with their shares, one     *)
(* proposal is created, each shareholder votes as the walkthrough has it,    *)
(* and the proposal is finalized; the calls come in any order and any of     *)
(* them may be repeated.                                                     *)
InitScenario ==
    /\ initialized = FALSE
    /\ companyName = ""
    /\ totalShares = 0
    /\ board = {}
    /\ shareholders = [a \in ScenarioAddresses |-> NoShareholder]
    /\ proposals = << >>
    /\ voted = {}
    /\ castWeight = [k \in {} |-> Zero32]
    /\ now = 0
    /\ logging = FALSE
    /\ eventCount = 0
    /\ lastEvent = NoEvent
    /\ txCount = 0
    /\ HelpersInit
    /\ PageInit
    /\ ListingInit

NextScenario ==
    \/ \E caller \in ScenarioAddresses, s \in TotalSharesInputs :
          initCompany(caller, "Acme Corporation", s)
             /\ MinedScenario(initCompanyRevert(caller) = OK)
    \/ \E caller \in ScenarioAddresses, a \in ScenarioBoard :
          addBoard(caller, a) /\ MinedScenario(addBoardRevert(caller) = OK)
    \/ \E caller \in ScenarioAddresses, h \in ScenarioHolders :
          addShareholder(caller, h, ScenarioShares[h], ScenarioName[h])
             /\ MinedScenario(addShareholderRevert(caller) = OK)
    \/ \E caller \in ScenarioAddresses, t \in ScenarioTypes, ti \in Titles, d \in DayInputs :
          /\ proposals = << >>
          /\ createProposal(caller, t, ti, d)
          /\ MinedScenario(createProposalRevert(caller) = OK)
    \/ \E h \in ScenarioHolders, id \in IdInputs :
          vote(h, id, ScenarioChoice[h]) /\ MinedScenario(voteRevert(h, id, ScenarioChoice[h]) = OK)
    \/ \E id \in IdInputs : finalize(id) /\ MinedScenario(finalizeRevert(id) = OK)
    \/ \E t \in TickTargets : Tick(t)

SpecScenario == InitScenario /\ [][NextScenario]_vars

(* The same accounts voting any choice on a proposal of any threshold *)
NextTally ==
    \/ \E h \in ScenarioHolders :
          addShareholder(owner, h, ScenarioShares[h], ScenarioName[h])
             /\ MinedScenario(addShareholderRevert(owner) = OK)
    \/ \E t \in TallyTypes, ti \in Titles, d \in DayInputs :
          /\ proposals = << >>
          /\ createProposal(owner, t, ti, d)
          /\ MinedScenario(createProposalRevert(owner) = OK)
    \/ \E h \in ScenarioHolders, id \in IdInputs, c \in ChoiceInputs :
          vote(h, id, c) /\ MinedScenario(voteRevert(h, id, c) = OK)
    \/ \E id \in IdInputs : finalize(id) /\ MinedScenario(finalizeRevert(id) = OK)
    \/ \E t \in TickTargets : Tick(t)

SpecTally == InitScenario /\ [][NextTally]_vars

(* The voting page in the browser; it makes no contract call *)
NextVoting ==
    \/ \E id \in MockIds : openVoteModal(id)
    \/ closeVoteModal
    \/ \E id \in MockIds, c \in VoteChoices : handleVote(id, c)
    \/ handleVoteResume
    \/ \E w \in Web3States : Web3Change(w)

SpecVoting == Init /\ [][NextVoting]_vars

(* the timer of line 487 always fires: the browser's event loop runs the      *)
(* callback of setTimeout 2000 ms after the call, whatever the user does      *)
SpecVotingFair == SpecVoting /\ WF_vars(handleVoteResume)

(* The four calls that emit an event, with the event log recorded and the   *)
(* vote choice drawn from all over uint8                                     *)
InitEvents ==
    /\ initialized = FALSE
    /\ companyName = ""
    /\ totalShares = 0
    /\ board = {}
    /\ shareholders = [a \in Addresses |-> NoShareholder]
    /\ proposals = << >>
    /\ voted = {}
    /\ castWeight = [k \in {} |-> Zero32]
    /\ now = 0
    /\ logging = TRUE
    /\ eventCount = 0
    /\ lastEvent = NoEvent
    /\ txCount = 0
    /\ HelpersInit
    /\ PageInit
    /\ ListingInit

NextEvents ==
    \/ \E caller \in Addresses, n \in CompanyNames, s \in TotalSharesInputs :
          initCompany(caller, n, s) /\ Mined(initCompanyRevert(caller) = OK)
    \/ \E caller \in Addresses, a \in Addresses, s \in ShareInputs, n \in HolderNames :
          addShareholder(caller, a, s, n) /\ Mined(addShareholderRevert(caller) = OK)
    \/ \E caller \in Addresses, t \in TypeInputs, ti \in Titles, d \in DayInputs :
          /\ Len(proposals) < MaxProposals
          /\ createProposal(caller, t, ti, d)
          /\ Mined(createProposalRevert(caller) = OK)
    \/ \E caller \in Addresses, id \in IdInputs, c \in AllChoiceInputs :
          vote(caller, id, c) /\ Mined(voteRevert(caller, id, c) = OK)
    \/ \E t \in TickTargets : Tick(t)

SpecEvents == InitEvents /\ [][NextEvents]_vars

(* The proposals page over every mock list: the tabs and the search box *)
InitProposals ==
    /\ initialized = FALSE
    /\ companyName = ""
    /\ totalShares = 0
    /\ board = {}
    /\ shareholders = [a \in Addresses |-> NoShareholder]
    /\ proposals = << >>
    /\ voted = {}
    /\ castWeight = [k \in {} |-> Zero32]
    /\ now = 0
    /\ logging = FALSE
    /\ eventCount = 0
    /\ lastEvent = NoEvent
    /\ txCount = 0
    /\ HelpersInit
    /\ PageInit
    /\ selectedTab = "all"
    /\ searchTerm = << >>
    /\ allMockProposals \in MockLists

NextProposals ==
    \/ \E tab \in Tabs : setSelectedTab(tab)
    \/ \E term \in SearchTermInputs : setSearchTerm(term)
    \/ \E w \in Web3States : Web3Change(w)

SpecProposals == InitProposals /\ [][NextProposals]_vars

(* Registration and re-registration of shareholders under either name *)
NextRegister ==
    \/ \E caller \in Addresses, a \in BoardInputs :
          addBoard(caller, a) /\ Mined(addBoardRevert(caller) = OK)
    \/ \E caller \in Addresses, a \in Addresses, s \in ShareInputs, n \in AllHolderNames :
          addShareholder(caller, a, s, n) /\ Mined(addShareholderRevert(caller) = OK)

SpecRegister == Init /\ [][NextRegister]_vars

(* The helpers of testProposal.ts against the contract *)
InitHelpers ==
    /\ initialized = FALSE
    /\ companyName = ""
    /\ totalShares = 0
    /\ board = {}
    /\ shareholders = [a \in Addresses |-> NoShareholder]
    /\ proposals = << >>
    /\ voted = {}
    /\ castWeight = [k \in {} |-> Zero32]
    /\ now = 0
    /\ logging = FALSE
    /\ eventCount = 0
    /\ lastEvent = NoEvent
    /\ txCount = 0
    /\ ethereum \in BOOLEAN
    /\ script = Idle
    /\ PageInit
    /\ ListingInit

(* the catch block: the error is logged and thrown again *)
Rethrow(message) == [script EXCEPT !.pc = "thrown", !.result = message]

(* the contract method is called: the transaction request goes out *)
Send == [script EXCEPT !.pc = "send",
                       !.calls = Append(@, ContractCall(script.helper, script.arg))]

(* a helper is called, and runs to its first await or to its throw *)
HelperStart(h, arg) ==
    /\ script.pc \in {"idle", "returned", "thrown"}
    /\ txCount < MaxCalls
    /\ h = "createTestProposal" => Len(proposals) < MaxProposals
    /\ script' = IF ~ethereum
                 THEN [Idle EXCEPT !.helper = h, !.arg = arg, !.pc = "thrown",
                                   !.result = "MetaMask not installed"]
                 ELSE [Idle EXCEPT !.helper = h, !.arg = arg, !.pc = "getSigner"]
    /\ UNCHANGED <<ethereum, state, txCount, page, listing>>

createTestProposal == HelperStart("createTestProposal", "")
initializeCompany == HelperStart("initializeCompany", "")
addBoardMember(memberAddress) == HelperStart("addBoardMember", memberAddress)

(* await provider.getSigner() settles *)
SignerResolved(ok, s) ==
    /\ script.pc = "getSigner"
    /\ script' = IF ~ok THEN Rethrow("getSigner rejected")
                 ELSE IF script.helper = "createTestProposal"
                 THEN [script EXCEPT !.signer = s, !.pc = "getAddress"]
                 ELSE [Send EXCEPT !.signer = s]
    /\ UNCHANGED <<ethereum, state, txCount, page, listing>>

(* await signer.getAddress() of createTestProposal settles *)
AddressResolved(ok) ==
    /\ script.pc = "getAddress"
    /\ script' = IF ok THEN Send ELSE Rethrow("getAddress rejected")
    /\ UNCHANGED <<ethereum, state, txCount, page, listing>>

(* mutant: the receipt is returned without waiting for the confirmation *)
SendResolved_NoWait(ok) ==
    /\ script.pc = "send"
    /\ script' = IF ok THEN [script EXCEPT !.pc = "returned", !.result = "receipt"]
                 ELSE Rethrow("send rejected")
    /\ UNCHANGED <<ethereum, state, txCount, page, listing>>

(* the await of the contract call settles: the transaction was sent or not *)
SendResolved(ok) ==
    /\ script.pc = "send"
    /\ script' = IF ok THEN [script EXCEPT !.pc = "wait"] ELSE Rethrow("send rejected")
    /\ UNCHANGED <<ethereum, state, txCount, page, listing>>

CallRevert(call, caller) ==
    IF call[1] = "createProposal" THEN createProposalRevert(caller)
    ELSE IF call[1] = "initCompany" THEN initCompanyRevert(caller)
    ELSE addBoardRevert(caller)

CallMined(call, caller) ==
    IF call[1] = "createProposal"
    THEN createProposal(caller, call[2][1], call[2][2], call[2][3])
    ELSE IF call[1] = "initCompany" THEN initCompany(caller, call[2][1], call[2][2])
    ELSE addBoard(caller, call[2][1])

(* the network mines the transaction of the call that was sent: the contract *)
(* executes it, or reverts. It happens while the helper is suspended at an    *)
(* await, or after the helper gave up on an error; the helper takes no step.  *)
TxMined ==
    /\ script.pc \in {"send", "wait", "thrown"}
    /\ script.calls # << >>
    /\ script.mined = "no"
    /\ IF CallRevert(Head(script.calls), script.signer) = OK
       THEN /\ CallMined(Head(script.calls), script.signer)
            /\ txCount' = txCount + 1
            /\ script' = [script EXCEPT !.mined = "ok"]
       ELSE /\ script' = [script EXCEPT !.mined = "reverted"]
            /\ UNCHANGED <<state, txCount>>
    /\ UNCHANGED <<ethereum, page, listing>>

(* await tx.wait() settles: with the receipt of the mined transaction, which  *)
(* is returned, or with a rejection (a reverted transaction, a lost           *)
(* connection, before or after the mining)                                    *)
WaitResolved(ok) ==
    /\ script.pc = "wait"
    /\ ok => script.mined = "ok"
    /\ script' = IF ok THEN [script EXCEPT !.pc = "returned", !.result = "receipt"]
                 ELSE Rethrow("wait rejected")
    /\ UNCHANGED <<ethereum, state, txCount, page, listing>>

NextHelpers ==
    \/ createTestProposal
    \/ initializeCompany
    \/ \E a \in Addresses : addBoardMember(a)
    \/ \E ok \in BOOLEAN, s \in Addresses : SignerResolved(ok, s)
    \/ \E ok \in BOOLEAN : AddressResolved(ok)
    \/ \E ok \in BOOLEAN : SendResolved(ok)
    \/ TxMined
    \/ \E ok \in BOOLEAN : WaitResolved(ok)

SpecHelpers == InitHelpers /\ [][NextHelpers]_vars

----------------------------------------------------------------------------
(* Properties *)

Voters(_id) == {a \in Addresses : HasVoted(_id, a)}
(* C1: once an address has a has-voted record on a proposal (which every      *)
(* successful vote, abstain included, writes), the record stays and every     *)
(* later vote call by that address on that proposal reverts, whatever the     *)
(* choice; a tally never moves without a new record being written.            *)
C1_NoSecondVote ==
    /\ [](\A k \in voted : \A c \in ChoiceInputs : voteRevert(k[2], k[1], c) # OK)
    /\ [][/\ voted \subseteq voted'
          /\ \A id \in 1 .. Len(proposals) :
                (\/ proposals'[id].forVotes # proposals[id].forVotes
                 \/ proposals'[id].againstVotes # proposals[id].againstVotes)
                => \E a \in Addresses : <<id, a>> \in voted' \ voted]_vars

(* C1 witness: an address has voted on a proposal that is still open and the  *)
(* address is still a shareholder, so only the has-voted record stops it.     *)
C1_Witness ==
    \E k \in voted :
        /\ onlySharehol(k[2])
        /\ ValidId(k[1])
        /\ VotingOpen(proposals[k[1]])

(* C2 as stated: in every state forVotes + againstVotes of a proposal is at   *)
(* most the sum of the current share counts of the addresses that voted on it *)
C2_TallyWithinCurrentShares ==
    \A id \in 1 .. Len(proposals) :
        WideLeq(WideAdd(proposals[id].forVotes, proposals[id].againstVotes),
                WideSum([a \in Addresses |-> shareholders[a].shares], Voters(id)))

(* C2 amended: in every state forVotes + againstVotes of a proposal is at     *)
(* most the sum, over the addresses that voted on it, of the share count each *)
(* held at the moment of its vote.                                            *)
C2_TallyWithinCastShares ==
    \A id \in 1 .. Len(proposals) :
        WideLeq(WideAdd(proposals[id].forVotes, proposals[id].againstVotes),
                WideSum(castWeight, {k \in voted : k[1] = id}))

(* C2 witness: two addresses voted on one proposal, one for and one against,  *)
(* and one of them has since been re-registered with another share count.     *)
C2_Witness ==
    \E id \in 1 .. Len(proposals) :
        /\ Cardinality(Voters(id)) = 2
        /\ proposals[id].forVotes # Zero32
        /\ proposals[id].againstVotes # Zero32
        /\ \E a \in Voters(id) : castWeight[<<id, a>>] # shareholders[a].shares

(* C3: the step of a successful vote by a on id with choice 1 adds exactly    *)
(* a's share count to forVotes (the sum fits 32 bits) and leaves againstVotes; *)
(* with choice 2 it adds it to againstVotes and leaves forVotes; no tally of  *)
(* another proposal changes.                                                  *)
C3_VoteAddsShares ==
    [][\A k \in voted' \ voted :
          LET id == k[1]
              w  == shareholders[k[2]].shares
              p  == proposals[id]
              q  == proposals'[id]
          IN  /\ \A j \in (1 .. Len(proposals)) \ {id} :
                    /\ proposals'[j].forVotes = proposals[j].forVotes
                    /\ proposals'[j].againstVotes = proposals[j].againstVotes
              /\ vote(k[2], id, 1) =>
                    /\ q.forVotes = WideAdd(p.forVotes, w)
                    /\ FitsU32(q.forVotes)
                    /\ q.againstVotes = p.againstVotes
              /\ vote(k[2], id, 2) =>
                    /\ q.againstVotes = WideAdd(p.againstVotes, w)
                    /\ FitsU32(q.againstVotes)
                    /\ q.forVotes = p.forVotes]_vars

(* C3 witness: with two proposals, a for-vote landed on the first and an      *)
(* against-vote on the second, and nothing else was tallied.                  *)
C3_Witness ==
    /\ Len(proposals) = 2
    /\ proposals[1].forVotes # Zero32 /\ proposals[1].againstVotes = Zero32
    /\ proposals[2].againstVotes # Zero32 /\ proposals[2].forVotes = Zero32

(* C4 as stated: a vote is accepted only while the proposal is active and the *)
(* time is strictly before the deadline.                                      *)
C4_AcceptedOnlyBeforeDeadline ==
    [][\A k \in voted' \ voted :
          /\ ValidId(k[1])
          /\ proposals[k[1]].active
          /\ now < proposals[k[1]].deadline]_vars

(* C4 amended: a vote is accepted only while the proposal is active and the   *)
(* time is not later than the deadline (time <= deadline).                    *)
C4_AcceptedOnlyInWindow ==
    [][\A k \in voted' \ voted :
          /\ ValidId(k[1])
          /\ proposals[k[1]].active
          /\ now <= proposals[k[1]].deadline]_vars

(* C4 witness: the clock stands exactly at the deadline of a proposal that    *)
(* already holds one vote, and a vote call by another address succeeds.       *)
C4_Witness ==
    \E k \in voted :
        /\ now = proposals[k[1]].deadline
        /\ \E a \in Addresses : a # k[2] /\ voteRevert(a, k[1], 1) = OK

(* C5: once the time is later than a proposal's deadline every vote call on   *)
(* it reverts, active flag still true or not, and no step changes its tallies *)
(* or its has-voted records.                                                  *)
C5_NoVoteAfterDeadline ==
    /\ [](\A id \in 1 .. Len(proposals) :
             now > proposals[id].deadline =>
                \A a \in Addresses, c \in ChoiceInputs : voteRevert(a, id, c) # OK)
    /\ [][\A id \in 1 .. Len(proposals) :
             now > proposals[id].deadline =>
                /\ proposals'[id].forVotes = proposals[id].forVotes
                /\ proposals'[id].againstVotes = proposals[id].againstVotes
                /\ \A a \in Addresses : <<id, a>> \in voted' <=> <<id, a>> \in voted]_vars

(* C5 witness: the deadline of a still active proposal has passed and a       *)
(* shareholder who has not voted on it exists.                                *)
C5_Witness ==
    \E id \in 1 .. Len(proposals), a \in Addresses :
        /\ now > proposals[id].deadline
        /\ proposals[id].active
        /\ shareholders[a].active
        /\ <<id, a>> \notin voted

(* C6: every stored proposal has threshold 75 if its type is 2, 60 if its     *)
(* type is 1 and 50 for any other type, whoever created it and whenever.      *)
C6_ThresholdByType ==
    \A i \in 1 .. Len(proposals) :
        /\ proposals[i].pType = 2 => proposals[i].threshold = 75
        /\ proposals[i].pType = 1 => proposals[i].threshold = 60
        /\ proposals[i].pType \notin {1, 2} => proposals[i].threshold = 50

(* C6 witness: a MERGER proposal and one of a type outside the six categories *)
(* exist, created by different callers at different times.                    *)
C6_Witness ==
    /\ Len(proposals) = 2
    /\ proposals[1].pType = 2
    /\ proposals[2].pType = 255
    /\ proposals[1].proposer # proposals[2].proposer
    /\ proposals[1].deadline # proposals[2].deadline

(* C7: no step that changes what a call writes is that call made in violation *)
(* of a precondition:                                                         *)
(* initCompany when initialized or not by the owner, addBoard not by the      *)
(* owner, addShareholder or createProposal by a non-board caller, vote by a   *)
(* non-shareholder, with an out-of-range id, a second time, on an inactive    *)
(* proposal or after the deadline.  Such a call leaves the state as it was.   *)
VoteViolates(a, id) ==
    \/ ~shareholders[a].active
    \/ id \notin 1 .. Len(proposals)
    \/ <<id, a>> \in voted
    \/ ~proposals[id].active
    \/ now > proposals[id].deadline

C7_FailedCallChangesNothing ==
    [][\A c \in Addresses :
          /\ <<initialized, companyName, totalShares>>' # <<initialized, companyName, totalShares>>
                => ((c # owner \/ initialized) =>
                      \A n \in CompanyNames, s \in TotalSharesInputs : ~initCompany(c, n, s))
          /\ board' # board
                => (c # owner => \A a \in BoardInputs : ~addBoard(c, a))
          /\ shareholders' # shareholders
                => ((c # owner /\ c \notin board) =>
                      \A a \in Addresses, s \in ShareInputs, n \in HolderNames :
                         ~addShareholder(c, a, s, n))
          /\ <<proposals, voted>>' # <<proposals, voted>>
                => /\ (c # owner /\ c \notin board) =>
                         \A t \in TypeInputs, ti \in Titles, d \in DayInputs :
                            ~createProposal(c, t, ti, d)
                   /\ \A id \in IdInputs :
                         VoteViolates(c, id) => \A ch \in ChoiceInputs : ~vote(c, id, ch)]_vars

(* C7 witness: a state where each kind of violating call can be made: the     *)
(* company is initialized, a non-board address exists, a shareholder has      *)
(* voted on an open proposal and another proposal's deadline has passed.      *)
C7_Witness ==
    /\ initialized
    /\ \E c \in Addresses : c # owner /\ c \notin board
    /\ \E k \in voted : shareholders[k[2]].active /\ VotingOpen(proposals[k[1]])
    /\ \E id \in 1 .. Len(proposals) : now > proposals[id].deadline

(* C8: once initialized, every initCompany call reverts and the company name, *)
(* total shares and initialized flag never change.                            *)
C8_InitOnce ==
    /\ [](initialized => \A c \in Addresses : initCompanyRevert(c) # OK)
    /\ [][initialized =>
             /\ initialized'
             /\ companyName' = companyName
             /\ totalShares' = totalShares]_vars

(* C8 witness: the company has been initialized.                              *)
C8_Witness ==
    /\ initialized
    /\ companyName \in CompanyNames
    /\ totalShares \in TotalSharesInputs

(* C9: every recorded vote comes from an active shareholder, every new        *)
(* proposal from the owner or a board member, and no state-changing step is   *)
(* an addShareholder or createProposal call by a non-board caller or an       *)
(* initCompany call by a non-owner.                                           *)
C9_RolesEnforced ==
    [][/\ \A k \in voted' \ voted : shareholders[k[2]].active
       /\ Len(proposals') > Len(proposals) =>
             LET who == proposals'[Len(proposals')].proposer
             IN  who = owner \/ who \in board
       /\ \A c \in Addresses :
             /\ initialized' # initialized =>
                   (c # owner => \A n \in CompanyNames, s \in TotalSharesInputs :
                                    ~initCompany(c, n, s))
             /\ shareholders' # shareholders =>
                   ((c # owner /\ c \notin board) =>
                       \A a \in Addresses, s \in ShareInputs, n \in HolderNames :
                          ~addShareholder(c, a, s, n))]_vars

(* C9 witness: a non-owner board member has registered a shareholder and      *)
(* created a proposal, that shareholder has voted, and another address holds  *)
(* no role at all.                                                            *)
C9_Witness ==
    /\ initialized
    /\ \E i \in 1 .. Len(proposals) : proposals[i].proposer # owner
    /\ voted # {}
    /\ \E a \in Addresses : ~shareholders[a].active

(* C10: a vote call with id 0 or id above the number of proposals reverts;    *)
(* the step of a successful vote with id in 1..N changes the id-th created    *)
(* proposal and no other, and a created proposal is appended after the        *)
(* existing ones, so position id is the id-th created.                        *)
C10_IdAddressing ==
    /\ [](\A id \in IdInputs :
             (id = 0 \/ id > Len(proposals)) =>
                \A a \in Addresses, c \in ChoiceInputs : voteRevert(a, id, c) # OK)
    /\ [][/\ \A k \in voted' \ voted :
                /\ k[1] \in 1 .. Len(proposals)
                /\ \A j \in (1 .. Len(proposals)) \ {k[1]} : proposals'[j] = proposals[j]
                /\ [proposals'[k[1]] EXCEPT !.forVotes = Zero32, !.againstVotes = Zero32]
                     = [proposals[k[1]] EXCEPT !.forVotes = Zero32, !.againstVotes = Zero32]
          /\ Len(proposals') >= Len(proposals)
          /\ Len(proposals') > Len(proposals) =>
                SubSeq(proposals', 1, Len(proposals)) = proposals]_vars

(* C10 witness: with two proposals, a vote with id 2 was tallied on the       *)
(* second while the first has none.                                           *)
C10_Witness ==
    /\ Len(proposals) = 2
    /\ \E a \in Addresses : <<2, a>> \in voted /\ <<1, a>> \notin voted
    /\ proposals[2].forVotes # Zero32
    /\ proposals[1].forVotes = Zero32 /\ proposals[1].againstVotes = Zero32

(* C11: the step of a successful vote with choice 0 (abstain) writes the      *)
(* has-voted record and leaves forVotes and againstVotes of every proposal,   *)
(* the one voted on included, as they were.                                   *)
C11_AbstainLeavesTallies ==
    [][\A k \in voted' \ voted :
          vote(k[2], k[1], 0) =>
             \A j \in 1 .. Len(proposals) :
                /\ proposals'[j].forVotes = proposals[j].forVotes
                /\ proposals'[j].againstVotes = proposals[j].againstVotes]_vars

(* C11 witness: a vote cast with the full uint32 weight is recorded on a      *)
(* proposal whose two tallies are still zero.                                 *)
C11_Witness ==
    \E k \in voted :
        /\ castWeight[k] = Max32
        /\ proposals[k[1]].forVotes = Zero32
        /\ proposals[k[1]].againstVotes = Zero32

(* C12: the step of a successful addShareholder(a, s, n) leaves the record of *)
(* a as exactly (active = true, shares = s, name = n) whatever it held        *)
(* before (the shares are replaced, not added to) and leaves the record of    *)
(* every other address as it was.                                             *)
C12_AddShareholderOverwrites ==
    [][shareholders' # shareholders =>
          \A c \in Addresses, a \in Addresses, s \in ShareInputs, n \in AllHolderNames :
             addShareholder(c, a, s, n) =>
                /\ shareholders'[a] = [active |-> TRUE, shares |-> s, name |-> n]
                /\ \A b \in Addresses \ {a} : shareholders'[b] = shareholders[b]]_vars

(* C12 witness: with an empty board two calls have succeeded, so both were    *)
(* registrations by the owner, and one address alone is registered: it was    *)
(* registered twice and holds one share under the second name.                *)
C12_Witness ==
    /\ txCount = 2
    /\ board = {}
    /\ \E a \in Addresses :
          /\ shareholders[a] = [active |-> TRUE, shares |-> FromNat(1), name |-> "Bob Smith"]
          /\ \A b \in Addresses \ {a} : shareholders[b] = NoShareholder

(* the fields a proposal is created with and no later call assigns *)
Created(p) == <<p.pType, p.title, p.proposer, p.deadline, p.threshold>>

(* C13: the id a successful createProposal returns is the position at which   *)
(* its proposal is stored, one more than the number of proposals before it,   *)
(* so the k-th creation returns k; no step removes or reorders a proposal     *)
(* (each keeps its position and the fields it was created with); and the ids  *)
(* vote accepts as valid are exactly 1 .. N for a list of N proposals.        *)
C13_SequentialIds ==
    /\ [](\A id \in IdInputs : ValidId(id) <=> id \in 1 .. Len(proposals))
    /\ [][/\ Len(proposals') >= Len(proposals)
          /\ \A i \in 1 .. Len(proposals) : Created(proposals'[i]) = Created(proposals[i])
          /\ Len(proposals') > Len(proposals) =>
                /\ Len(proposals') = Len(proposals) + 1
                /\ createProposalId = Len(proposals')
                /\ createProposalId \notin 1 .. Len(proposals)
                /\ proposals'[createProposalId].forVotes = Zero32]_vars

(* C13 witness: two proposals were created at different times; the first has  *)
(* since been voted on and finalized and is still first, and the next         *)
(* creation would return 3.                                                   *)
C13_Witness ==
    /\ Len(proposals) = 2
    /\ createProposalId = 3
    /\ proposals[1].deadline < proposals[2].deadline
    /\ proposals[1].forVotes # Zero32
    /\ ~proposals[1].active
    /\ proposals[2].active

RECURSIVE GCD(_, _)
GCD(a, b) == IF b = 0 THEN a ELSE GCD(b, a % b)

(* the for votes as a percentage of the for and against votes, exactly: the   *)
(* fraction <<numerator, denominator>> in lowest terms (<<125, 2>> for the    *)
(* 62.5% of the walkthrough)                                                  *)
ForPercent(p) ==
    LET n == ToNat(p.forVotes) * 100
        d == ToNat(p.forVotes) + ToNat(p.againstVotes)
    IN  <<n \div GCD(n, d), d \div GCD(n, d)>>

(* whether the percentage pct, a fraction, is at least the whole number t *)
AtLeast(pct, t) == pct[1] >= t * pct[2]

(* C14: for every proposal getResults returns the stored forVotes and         *)
(* againstVotes, and where at least one for or against vote was cast its      *)
(* third component is true exactly when forVotes as a percentage of           *)
(* forVotes + againstVotes is at least the stored threshold.                  *)
C14_ResultsByPercentage ==
    \A id \in 1 .. Len(proposals) :
        LET p == proposals[id]
            r == getResults(id)
        IN  /\ r[1] = p.forVotes
            /\ r[2] = p.againstVotes
            /\ WideAdd(p.forVotes, p.againstVotes) # Zero32 =>
                  (r[3] <=> AtLeast(ForPercent(p), p.threshold))

(* C14 witness: a BUDGET proposal stands at exactly 60% (30000 for, 20000     *)
(* against) and has passed.                                                   *)
C14_Witness ==
    /\ Len(proposals) = 1
    /\ proposals[1].threshold = 60
    /\ getResults(1) = <<FromNat(30000), FromNat(20000), TRUE>>

(* C15: in the walkthrough, once the holders of 50000, 30000 and 20000 shares *)
(* have voted for, against and abstain on the proposal and it has been        *)
(* finalized, getResults yields (50000, 30000, true).                         *)
C15_WalkthroughResult ==
    \A id \in 1 .. Len(proposals) :
        (/\ \A h \in ScenarioHolders : HasVoted(id, h)
         /\ ~proposals[id].active)
        => getResults(id) = <<FromNat(50000), FromNat(30000), TRUE>>

(* C15 witness: the three shareholders have voted on a 50%-threshold proposal *)
(* with the share counts of the walkthrough, the voting period has ended, the *)
(* proposal has been finalized and its approval is 62.5%.                     *)
C15_Witness ==
    /\ Len(proposals) = 1
    /\ proposals[1].threshold = 50
    /\ \A h \in ScenarioHolders : HasVoted(1, h) /\ castWeight[<<1, h>>] = ScenarioShares[h]
    /\ now > proposals[1].deadline
    /\ ~proposals[1].active
    /\ ForPercent(proposals[1]) = <<125, 2>>

(* C16: the step of a successful finalize(id) leaves the proposal inactive;   *)
(* from then on it stays inactive, every vote call on it reverts, whoever     *)
(* calls and whatever the choice, and no step changes its forVotes or         *)
(* againstVotes.                                                              *)
C16_FinalizeTerminal ==
    /\ [](\A id \in 1 .. Len(proposals) :
             ~proposals[id].active =>
                \A a \in Addresses, c \in ChoiceInputs : voteRevert(a, id, c) # OK)
    /\ [][/\ \A id \in IdInputs :
                (finalizeRevert(id) = OK /\ finalize(id)) => ~proposals'[id].active
          /\ \A id \in 1 .. Len(proposals) :
                ~proposals[id].active =>
                   /\ ~proposals'[id].active
                   /\ proposals'[id].forVotes = proposals[id].forVotes
                   /\ proposals'[id].againstVotes = proposals[id].againstVotes]_vars

(* C16 witness: a proposal holding votes was finalized before its deadline,   *)
(* and an active shareholder who has not voted on it exists: only the         *)
(* finalize stands between that shareholder and a vote.                       *)
C16_Witness ==
    \E id \in 1 .. Len(proposals), a \in Addresses :
        /\ ~proposals[id].active
        /\ now <= proposals[id].deadline
        /\ proposals[id].forVotes # Zero32
        /\ shareholders[a].active
        /\ <<id, a>> \notin voted

(* C19: no step changes the type, title, proposer, deadline or threshold of   *)
(* an existing proposal, lowers its forVotes or againstVotes, or turns its    *)
(* active flag from false to true.                                            *)
C19_ProposalFieldsFrame ==
    [][\A i \in 1 .. Len(proposals) :
          /\ i <= Len(proposals')
          /\ proposals'[i].pType = proposals[i].pType
          /\ proposals'[i].title = proposals[i].title
          /\ proposals'[i].proposer = proposals[i].proposer
          /\ proposals'[i].deadline = proposals[i].deadline
          /\ proposals'[i].threshold = proposals[i].threshold
          /\ WideLeq(proposals[i].forVotes, proposals'[i].forVotes)
          /\ WideLeq(proposals[i].againstVotes, proposals'[i].againstVotes)
          /\ proposals'[i].active => proposals[i].active]_vars

(* C19 witness: a proposal has gathered for and against votes from two        *)
(* shareholders and has been finalized.                                       *)
C19_Witness ==
    \E id \in 1 .. Len(proposals) :
        /\ Cardinality(Voters(id)) = 2
        /\ proposals[id].forVotes # Zero32
        /\ proposals[id].againstVotes # Zero32
        /\ ~proposals[id].active

(* C20: the step of a successful createProposal(type, title, days) by caller  *)
(* c at time t appends a proposal with the given type and title, active =     *)
(* true, forVotes = 0, againstVotes = 0, proposer = c and deadline =          *)
(* t + days * 86400, and leaves every existing proposal, every shareholder    *)
(* record and every has-voted record as it was.                               *)
C20_CreateProposalEffect ==
    [][Len(proposals') > Len(proposals) =>
          \A c \in Addresses, t \in TypeInputs, ti \in Titles, d \in DayInputs :
             createProposal(c, t, ti, d) =>
                LET q == proposals'[Len(proposals')]
                IN  /\ q.pType = t
                    /\ q.title = ti
                    /\ q.active
                    /\ q.forVotes = Zero32
                    /\ q.againstVotes = Zero32
                    /\ q.proposer = c
                    /\ q.deadline = now + (d * 86400)
                    /\ SubSeq(proposals', 1, Len(proposals)) = proposals
                    /\ shareholders' = shareholders
                    /\ voted' = voted]_vars

(* C20 witness: a second proposal was created by a board member other than    *)
(* the owner, at a later time than the first, which already holds a vote; it  *)
(* is active with both tallies zero.                                          *)
C20_Witness ==
    /\ Len(proposals) = 2
    /\ proposals[2].proposer # owner
    /\ proposals[2].deadline > proposals[1].deadline
    /\ proposals[2].active
    /\ proposals[2].forVotes = Zero32 /\ proposals[2].againstVotes = Zero32
    /\ \E a \in Addresses : <<1, a>> \in voted
    /\ proposals[1].forVotes # Zero32

(* C17: no step of handleVote, whatever the choice and whether it ends in the *)
(* success toast or in the error toast, changes the displayed proposals or    *)
(* their for, against and abstain counts, or anything on the ledger; of the   *)
(* page's state it writes votingInProgress, showVoteModal and                 *)
(* selectedProposal only.                                                     *)
C17_MockVoteMutatesNothing ==
    [][(pendingVotes' # pendingVotes \/ toast' # toast) =>
          /\ mockProposals' = mockProposals
          /\ ledger' = ledger
          /\ web3' = web3]_vars

(* C17 witness: a handleVote has run to its end and left the success toast,   *)
(* the modal closed and no proposal selected, with the mock proposals as      *)
(* they were loaded.                                                          *)
C17_Witness ==
    /\ toast = "success"
    /\ pendingVotes = << >>
    /\ votingInProgress = null
    /\ selectedProposal = null
    /\ ~showVoteModal
    /\ mockProposals = MockProposals

(* C18: at most one handleVote is waiting at its await at any time, and while *)
(* one is, the For, Against and Abstain buttons are disabled and no           *)
(* handleVote can start, whichever proposal the modal shows.                  *)
C18_OneVoteOutstanding ==
    /\ Len(pendingVotes) <= 1
    /\ pendingVotes # << >> =>
          /\ VoteDisabled
          /\ votingInProgress = {pendingVotes[1].proposalId}
          /\ \A id \in MockIds, c \in VoteChoices : ~ENABLED handleVote(id, c)

(* C18 witness: while a vote on one proposal is waiting, the modal is open    *)
(* on another proposal, with wallet and contract ready.                       *)
C18_Witness ==
    /\ Len(pendingVotes) = 1
    /\ web3 = "ready"
    /\ ModalRendered
    /\ selectedProposal # {pendingVotes[1].proposalId}

(* C21: an address that is an active shareholder stays one in every later    *)
(* state; a step that changes a shareholder record changes the record of one  *)
(* address, to a registration (active, a share count, a name), and is not a   *)
(* step of vote, createProposal, initCompany or finalize: it leaves the       *)
(* proposals, the has-voted records and the company data as they were.        *)
C21_ShareholdersNeverDeleted ==
    [][/\ \A a \in Addresses : shareholders[a].active => shareholders'[a].active
       /\ shareholders' # shareholders =>
             /\ \E a \in Addresses, s \in ShareInputs, n \in HolderNames :
                   shareholders' =
                      [shareholders EXCEPT ![a] = [active |-> TRUE, shares |-> s, name |-> n]]
             /\ UNCHANGED <<proposals, voted, initialized, companyName, totalShares>>]_vars

(* C21 witness: after the company was initialized, a proposal created, voted  *)
(* on and finalized, the voter is still an active shareholder with the share  *)
(* count it voted with.                                                       *)
C21_Witness ==
    /\ initialized
    /\ \E k \in voted :
          /\ ~proposals[k[1]].active
          /\ shareholders[k[2]].active
          /\ shareholders[k[2]].shares = castWeight[k]

(* C22: of initCompany, addShareholder, createProposal and vote, every call   *)
(* that succeeds emits exactly one event, of its own kind: CompanyInit with   *)
(* the name, ShareholderAdd with the address, ProposalAdd with the new id,    *)
(* VoteAdd with the id and the caller, whatever the choice; a call that       *)
(* fails emits none; so the number of events emitted is always the number of  *)
(* successful calls and the k-th event is that of the k-th successful call.   *)
C22_OneEventPerCall ==
    /\ [](eventCount = txCount)
    /\ [][/\ txCount' = txCount => UNCHANGED <<eventCount, lastEvent>>
          /\ txCount' # txCount =>
                /\ eventCount' = eventCount + 1
                /\ initialized' # initialized =>
                      lastEvent' = <<"CompanyInit", <<companyName'>>>>
                /\ Len(proposals') > Len(proposals) =>
                      lastEvent' = <<"ProposalAdd", <<Len(proposals')>>>>
                /\ \A k \in voted' \ voted : lastEvent' = <<"VoteAdd", <<k[1], k[2]>>>>
                /\ \A c \in Addresses, a \in Addresses, s \in ShareInputs, n \in HolderNames :
                      (addShareholderRevert(c) = OK /\ addShareholder(c, a, s, n)) =>
                         lastEvent' = <<"ShareholderAdd", <<a>>>>]_vars

(* C22 witness: the four kinds of call have each succeeded once, the vote     *)
(* last and as an abstention, and four events have been emitted.              *)
C22_Witness ==
    /\ eventCount = 4
    /\ initialized
    /\ Len(proposals) = 1
    /\ \E a \in Addresses :
          /\ lastEvent = <<"VoteAdd", <<1, a>>>>
          /\ castWeight[<<1, a>>] = Max32
    /\ proposals[1].forVotes = Zero32 /\ proposals[1].againstVotes = Zero32

(* two characters are the same letter, in the same case or not *)
SameLetter(x, y) ==
    \/ x = y
    \/ {x, y} \in {{"a", "A"}, {"b", "B"}, {"c", "C"}}

(* sub occurs in str when case is ignored *)
ContainsIgnoringCase(str, sub) ==
    \E i \in 0 .. (Len(str) - Len(sub)) : \A k \in 1 .. Len(sub) : SameLetter(str[i + k], sub[k])

(* the positions of the mock list the claim says are listed *)
Listed ==
    {i \in 1 .. Len(allMockProposals) :
        LET proposal == allMockProposals[i]
        IN  /\ selectedTab = "all" \/ proposal.status = selectedTab
            /\ searchTerm # << >> =>
                  \/ ContainsIgnoringCase(proposal.title, searchTerm)
                  \/ ContainsIgnoringCase(proposal.description, searchTerm)
                  \/ ContainsIgnoringCase(PROPOSAL_TYPE_LABELS[proposal.type], searchTerm)}

(* C23: the proposals listed are exactly the mock proposals whose status is   *)
(* the selected tab (all of them under 'all') and, when the search term is    *)
(* not empty, whose title, description or type label contains it when case    *)
(* is ignored, in the order they have in the mock list; under 'all' with an   *)
(* empty search the list is the whole mock list.                              *)
C23_FilteredProposals ==
    /\ Len(filteredProposals) = Cardinality(Listed)
    /\ \A j \in 1 .. Len(filteredProposals) :
          \E i \in Listed :
             /\ Cardinality({k \in Listed : k < i}) = j - 1
             /\ filteredProposals[j] = allMockProposals[i]
    /\ (selectedTab = "all" /\ searchTerm = << >>) => filteredProposals = allMockProposals

(* C23 witness: the list is rendered, and of three mock proposals the search for "AB" under 'all'       *)
(* lists the first, matched in its description "aB", and the third, matched   *)
(* in its title "Ab", in that order, and not the second.                      *)
C23_Witness ==
    /\ ListRendered
    /\ selectedTab = "all"
    /\ searchTerm = <<"A", "B">>
    /\ Len(allMockProposals) = 3
    /\ Len(filteredProposals) = 2
    /\ filteredProposals[1].id = 3
    /\ filteredProposals[2].id = 1

(* C24: a step that changes a shareholder record changes no proposal, no      *)
(* has-voted record and no recorded vote weight; and an address that voted    *)
(* on a proposal and now holds another share count than it voted with still   *)
(* has every vote call on that proposal rejected as already voted.            *)
C24_ReRegistrationFrame ==
    /\ [](\A k \in voted :
             castWeight[k] # shareholders[k[2]].shares =>
                \A c \in ChoiceInputs :
                   voteRevert(k[2], k[1], c) = "Already voted on this proposal")
    /\ [][shareholders' # shareholders =>
             /\ proposals' = proposals
             /\ voted' = voted
             /\ castWeight' = castWeight]_vars

(* C24 witness: an address voted for an open proposal with the full uint32    *)
(* weight and was then re-registered with one share; the tally still shows    *)
(* the weight of the vote.                                                    *)
C24_Witness ==
    \E k \in voted :
        /\ castWeight[k] = Max32
        /\ shareholders[k[2]].shares = FromNat(1)
        /\ proposals[k[1]].forVotes = Max32
        /\ VotingOpen(proposals[k[1]])

(* C25: in every state forVotes and againstVotes of every proposal are at     *)
(* most 2^32 - 1; the step of a successful vote leaves each tally either as   *)
(* it was or larger by exactly the weight of the vote (WideAdd is the sum of  *)
(* naturals, not the sum modulo 2^32); and a vote call that meets the         *)
(* requires but whose weight would take the tally past 2^32 - 1 aborts with the arithmetic       *)
(* panic, so that no has-voted record is written for it.                      *)
C25_TalliesNeverWrap ==
    /\ [](\A id \in 1 .. Len(proposals) :
             /\ WideLeq(proposals[id].forVotes, Max32)
             /\ WideLeq(proposals[id].againstVotes, Max32)
             /\ \A a \in Addresses :
                   (/\ shareholders[a].active
                    /\ ~HasVoted(id, a)
                    /\ VotingOpen(proposals[id]))
                   => /\ ~WideLeq(WideAdd(proposals[id].forVotes, shareholders[a].shares), Max32)
                            => voteRevert(a, id, 1) = "Panic(0x11)"
                      /\ ~WideLeq(WideAdd(proposals[id].againstVotes, shareholders[a].shares),
                                  Max32)
                            => voteRevert(a, id, 2) = "Panic(0x11)")
    /\ [][\A k \in voted' \ voted :
             LET p == proposals[k[1]]
                 q == proposals'[k[1]]
                 w == castWeight'[k]
             IN  \/ q.forVotes = p.forVotes /\ q.againstVotes = p.againstVotes
                 \/ /\ q.forVotes = WideAdd(p.forVotes, w)
                    /\ q.againstVotes = p.againstVotes
                 \/ /\ q.againstVotes = WideAdd(p.againstVotes, w)
                    /\ q.forVotes = p.forVotes]_vars

(* C25 witness: a proposal's forVotes stands at 2^32 - 1 and is still open,   *)
(* and a shareholder with one share who has not voted on it exists: its       *)
(* for-vote would overflow.                                                   *)
C25_Witness ==
    \E id \in 1 .. Len(proposals), a \in Addresses :
        /\ proposals[id].forVotes = Max32
        /\ VotingOpen(proposals[id])
        /\ shareholders[a] = [active |-> TRUE, shares |-> FromNat(1), name |-> "Alice Johnson"]
        /\ ~HasVoted(id, a)

OtherChoices == AllChoiceInputs \ {0, 1, 2}

(* C26: a vote whose choice is none of 0, 1, 2 is not rejected. In every      *)
(* state such a call is accepted or refused exactly as the abstain call of    *)
(* the same caller on the same proposal, and is accepted whenever the caller  *)
(* is an active shareholder who has not voted on an open proposal; its step   *)
(* records the caller as voted, emits VoteAdd for the proposal and the        *)
(* caller, leaves every proposal and so both tallies as they were, and is     *)
(* also a step of the abstain call.                                           *)
C26_OutOfRangeChoiceAbstains ==
    /\ [](\A a \in Addresses, id \in IdInputs, c \in OtherChoices :
             /\ voteRevert(a, id, c) = voteRevert(a, id, 0)
             /\ (/\ shareholders[a].active
                 /\ ValidId(id)
                 /\ ~HasVoted(id, a)
                 /\ VotingOpen(proposals[id])) => voteRevert(a, id, c) = OK)
    /\ [][\A k \in voted' \ voted : \A a \in {k[2]}, id \in {k[1]}, c \in OtherChoices :
             (voteRevert(a, id, c) = OK /\ vote(a, id, c)) =>
                /\ voted' = voted \cup {<<id, a>>}
                /\ <<id, a>> \notin voted
                /\ proposals' = proposals
                /\ eventCount' = eventCount + 1
                /\ lastEvent' = <<"VoteAdd", <<id, a>>>>
                /\ vote(a, id, 0)]_vars

(* C26 witness: the last event is the VoteAdd of a voter of weight 2^32 - 1   *)
(* whose vote moved neither tally of the proposal, and the other address can  *)
(* still cast choice 255 on that proposal.                                    *)
C26_Witness ==
    \E k \in voted, a \in Addresses :
        /\ lastEvent = <<"VoteAdd", <<k[1], k[2]>>>>
        /\ castWeight[k] = Max32
        /\ proposals[k[1]].forVotes = FromNat(0)
        /\ proposals[k[1]].againstVotes = FromNat(0)
        /\ voteRevert(a, k[1], 255) = OK

(* C27: every handleVote that was started finishes with votingInProgress     *)
(* reset to null, whether it succeeds or throws: a pending vote leads to a    *)
(* state with no pending vote and votingInProgress null, and the step that    *)
(* ends a vote, after the delay or by a throw before it, sets votingInProgress *)
(* to null. While a vote is pending votingInProgress is the id of the         *)
(* proposal voted on. A handleVote step taken while the wallet is not         *)
(* connected or the contract is not loaded leaves votingInProgress and the    *)
(* pending votes as they were.                                                *)
C27_VoteAlwaysFinishes ==
    /\ (pendingVotes # << >>) ~> (pendingVotes = << >> /\ votingInProgress = null)
    /\ [](pendingVotes # << >> => votingInProgress = {pendingVotes[1].proposalId})
    /\ [][/\ Len(pendingVotes') < Len(pendingVotes) => votingInProgress' = null
          /\ (toast' = "failed" /\ toast # "failed") => votingInProgress' = null
          /\ \A id \in MockIds, c \in VoteChoices :
                (web3 # "ready" /\ handleVote(id, c)) =>
                   /\ votingInProgress' = votingInProgress
                   /\ votingInProgress' = null
                   /\ pendingVotes' = pendingVotes]_vars

(* C27 witness: a vote has thrown: the failure toast shows, no vote is        *)
(* pending, votingInProgress is null and the modal is still open on the       *)
(* proposal.                                                                  *)
C27_Witness ==
    /\ toast = "failed"
    /\ pendingVotes = << >>
    /\ votingInProgress = null
    /\ ModalRendered
    /\ web3 = "ready"

(* C28: the step that completes a pending vote successfully sets             *)
(* showVoteModal to false and selectedProposal to null whatever the modal     *)
(* showed, so also when it showed another proposal than the one voted on,     *)
(* opened during the delay; the step that completes it with a failure leaves  *)
(* showVoteModal and selectedProposal as they were. While a vote on a         *)
(* proposal is pending, the Vote Now button of every other proposal is        *)
(* enabled.                                                                   *)
C28_CompletionClosesAnyModal ==
    /\ [](pendingVotes # << >> =>
             \A id \in MockIds \ {pendingVotes[1].proposalId} : ~VoteNowDisabled(id))
    /\ [][Len(pendingVotes') < Len(pendingVotes) =>
             /\ toast' \in {"success", "failed"}
             /\ toast' = "success" => (~showVoteModal' /\ selectedProposal' = null)
             /\ toast' = "failed" =>
                   (showVoteModal' = showVoteModal /\ selectedProposal' = selectedProposal)]_vars

(* C28 witness: the vote on proposal 1 is in its delay, and the modal is open *)
(* on proposal 2.                                                             *)
C28_Witness ==
    /\ pendingVotes # << >>
    /\ pendingVotes[1].proposalId = 1
    /\ votingInProgress = {1}
    /\ toast = "loading"
    /\ showVoteModal
    /\ selectedProposal = {2}
    /\ ControlsRendered

RequireMessages ==
    {"Invalid proposal ID", "Already voted on this proposal", "Voting period ended"}

(* C29: vote checks its preconditions in a fixed order and reports the first  *)
(* that fails. In every state, for every caller, id and choice: a caller who  *)
(* is not an active shareholder is refused by the modifier, with none of the  *)
(* three require messages; a shareholder's id that is 0 or above the number   *)
(* of proposals yields "Invalid proposal ID"; a shareholder who has already   *)
(* voted on an existing proposal gets "Already voted on this proposal", also  *)
(* when the proposal is inactive or past its deadline; and a shareholder who  *)
(* has not voted on such a proposal gets "Voting period ended".               *)
C29_VoteCheckOrder ==
    \A a \in Addresses, id \in IdInputs, c \in ChoiceInputs :
        LET r == voteRevert(a, id, c)
        IN  /\ ~shareholders[a].active => r \notin RequireMessages \cup {OK}
            /\ (shareholders[a].active /\ ~(id > 0 /\ id <= Len(proposals)))
                  => r = "Invalid proposal ID"
            /\ (shareholders[a].active /\ id > 0 /\ id <= Len(proposals))
                  => /\ <<id, a>> \in voted => r = "Already voted on this proposal"
                     /\ (<<id, a>> \notin voted /\ ~VotingOpen(proposals[id]))
                           => r = "Voting period ended"
                     /\ r # "Invalid proposal ID"

(* C29 witness: an active shareholder has voted on a proposal whose deadline  *)
(* has passed, and a further proposal id is out of range.                     *)
C29_Witness ==
    \E k \in voted :
        /\ shareholders[k[2]].active
        /\ now > proposals[k[1]].deadline
        /\ voteRevert(k[2], k[1], 1) = "Already voted on this proposal"
        /\ voteRevert(k[2], Len(proposals) + 1, 1) = "Invalid proposal ID"

Finished == script.pc \in {"returned", "thrown"}
BeforeCall == {"getSigner rejected", "getAddress rejected"}

(* C30 as stated: a helper that has finished with a wallet provider present    *)
(* has sent exactly one contract call.                                         *)
C30_ExactlyOneCallWithProvider ==
    (Finished /\ ethereum) => Len(script.calls) = 1

(* C30: each helper performs its steps in order. Without a wallet provider it  *)
(* throws 'MetaMask not installed' with no contract call sent. With one it     *)
(* sends at most one contract call, the one of that helper: none if obtaining  *)
(* the signer or its address fails, and exactly one otherwise. A receipt is    *)
(* returned only by the step that follows the wait for the confirmation of a   *)
(* call that was sent and mined; the contract's state changes only when that   *)
(* call is mined, at most once for an invocation; an error from obtaining the  *)
(* signer, from sending or from confirming is rethrown, and then no receipt is *)
(* returned.                                                                   *)
C30_HelperStepsInOrder ==
    /\ [](/\ (~ethereum /\ script.pc # "idle") =>
                (/\ script.pc = "thrown"
                 /\ script.result = "MetaMask not installed"
                 /\ script.calls = << >>)
          /\ Len(script.calls) <= 1
          /\ script.calls # << >> =>
                script.calls[1] = ContractCall(script.helper, script.arg)
          /\ (Finished /\ ethereum) =>
                (Len(script.calls) = IF script.result \in BeforeCall THEN 0 ELSE 1)
          /\ script.pc \in {"send", "wait"} => Len(script.calls) = 1
          /\ script.result = "receipt" <=> script.pc = "returned"
          /\ script.pc = "returned" => (script.mined = "ok" /\ Len(script.calls) = 1)
          /\ script.mined # "no" => Len(script.calls) = 1
          /\ script.pc = "thrown" => script.result \in ErrorMessages
          /\ script.pc \notin {"returned", "thrown"} => script.result = "none")
    /\ [][/\ (state' # state \/ script'.mined # script.mined) =>
                \/ /\ script.mined = "no"
                   /\ script'.mined # "no"
                   /\ script.calls # << >>
                   /\ script' = [script EXCEPT !.mined = script'.mined]
                \/ Finished /\ script'.mined = "no" /\ state' = state   \* the next invocation
          /\ (script'.pc # script.pc /\ script.pc = "getSigner") =>
                script'.pc \in {"getAddress", "send", "thrown"}
          /\ (script'.pc # script.pc /\ script.pc = "getAddress") =>
                script'.pc \in {"send", "thrown"}
          /\ (script'.pc # script.pc /\ script.pc = "send") =>
                (/\ script'.pc \in {"wait", "thrown"}
                 /\ script'.pc = "thrown" => script'.result = "send rejected")
          /\ (script'.pc # script.pc /\ script.pc = "wait") =>
                (/\ script'.pc \in {"returned", "thrown"}
                 /\ script'.pc = "thrown" => script'.result = "wait rejected")
          /\ script'.calls # script.calls =>
                \/ Finished /\ script'.calls = << >>      \* the next invocation
                \/ /\ script.calls = << >>
                   /\ script.pc \in {"getSigner", "getAddress"}
                   /\ script'.pc = "send"]_vars

(* C30 witness: createTestProposal has returned its receipt after one          *)
(* confirmed createProposal call, and the contract holds the test proposal.    *)
C30_Witness ==
    /\ script.helper = "createTestProposal"
    /\ script.pc = "returned"
    /\ script.result = "receipt"
    /\ script.mined = "ok"
    /\ Len(script.calls) = 1
    /\ Len(proposals) >= 1
    /\ proposals[Len(proposals)].title = "Test Proposal: Elect New Board Member"

====
